---- MODULE Spec2Model ----
(***************************************************************************)
(* Model of the docs-service document pipeline (app/routes/docs.py):       *)
(* find_doc_file, parse_markdown, extract_title, list_docs and get_doc,    *)
(* run against a POSIX filesystem that holds the documentation tree, and   *)
(* of the health check (app/health.py) behind GET /healthz, and of the     *)
(* middleware chain (app/middleware.py) as app/main.py wires it.           *)
(*                                                                         *)
(* A Python str is a sequence of one-character strings, so that strip,     *)
(* split, startswith, endswith, replace and the ordering of str are the    *)
(* operations the code performs.  A pathlib path is the sequence of its    *)
(* segments below the anchor "/".                                          *)
(***************************************************************************)
EXTENDS Integers, Sequences, FiniteSets, TLC

VARIABLES
    docsRoot,   \* settings.DOCS_ROOT
    fs,         \* the filesystem: node at each absolute path
    req,        \* the request being served, NoReq when there is none
    resp,       \* the response built for it
    tasks,      \* the requests in flight at the same time, one per client
    now,        \* time.time(), in whole seconds
    context,    \* the server's contextvars context: the two health variables
    computed,   \* history: the last result check_health computed, and when
    log         \* the events the middleware has logged, in order

vars == <<docsRoot, fs, req, resp, tasks, now, context, computed, log>>

(* Bound on the number of filesystem nodes that exist at the same time. *)
MaxNodes == 4

----------------------------------------------------------------------------
(* Python str *)

(* ord(): the code points of the characters the model uses. *)
Ord(ch) ==
    CASE ch = "\n" -> 10
      [] ch = " "  -> 32
      [] ch = "#"  -> 35
      [] ch = "."  -> 46
      [] ch = "/"  -> 47
      [] ch = "A"  -> 65
      [] ch = "B"  -> 66
      [] ch = "C"  -> 67
      [] ch = "D"  -> 68
      [] ch = "E"  -> 69
      [] ch = "H"  -> 72
      [] ch = "I"  -> 73
      [] ch = "M"  -> 77
      [] ch = "R"  -> 82
      [] ch = "S"  -> 83
      [] ch = "X"  -> 88
      [] ch = "\\" -> 92
      [] ch = "a"  -> 97
      [] ch = "b"  -> 98
      [] ch = "c"  -> 99
      [] ch = "d"  -> 100
      [] ch = "e"  -> 101
      [] ch = "g"  -> 103
      [] ch = "i"  -> 105
      [] ch = "k"  -> 107
      [] ch = "m"  -> 109
      [] ch = "n"  -> 110
      [] ch = "o"  -> 111
      [] ch = "p"  -> 112
      [] ch = "r"  -> 114
      [] ch = "s"  -> 115
      [] ch = "t"  -> 116
      [] ch = "u"  -> 117
      [] ch = "w"  -> 119
      [] ch = "x"  -> 120

(* s < t on str: lexicographic by code point. *)
RECURSIVE StrLess(_, _)
StrLess(s, t) ==
    IF t = <<>> THEN FALSE
    ELSE IF s = <<>> THEN TRUE
    ELSE IF Head(s) = Head(t) THEN StrLess(Tail(s), Tail(t))
    ELSE Ord(Head(s)) < Ord(Head(t))

(* s.startswith(p) *)
StartsWith(s, p) ==
    /\ Len(p) <= Len(s)
    /\ SubSeq(s, 1, Len(p)) = p

(* s.endswith(p) *)
EndsWith(s, p) ==
    /\ Len(p) <= Len(s)
    /\ SubSeq(s, Len(s) - Len(p) + 1, Len(s)) = p

(* s.lstrip(chars) / s.rstrip(chars) / s.strip(chars) *)
RECURSIVE LStrip(_, _)
LStrip(s, chars) ==
    IF s # <<>> /\ Head(s) \in chars THEN LStrip(Tail(s), chars) ELSE s

RECURSIVE RStrip(_, _)
RStrip(s, chars) ==
    IF s # <<>> /\ s[Len(s)] \in chars
    THEN RStrip(SubSeq(s, 1, Len(s) - 1), chars)
    ELSE s

Strip(s, chars) == RStrip(LStrip(s, chars), chars)

(* The characters str.strip() removes when called without an argument. *)
Whitespace == {" ", "\n", "\r", "\t"}

(* s.split(sep) for a one-character separator: empty fields are kept. *)
RECURSIVE SplitFrom(_, _, _)
SplitFrom(s, sep, start) ==
    LET seps == {i \in start..Len(s) : s[i] = sep}
    IN  IF seps = {} THEN <<SubSeq(s, start, Len(s))>>
        ELSE LET j == CHOOSE i \in seps : \A k \in seps : i <= k
             IN  <<SubSeq(s, start, j - 1)>> \o SplitFrom(s, sep, j + 1)

Split(s, sep) == SplitFrom(s, sep, 1)

(* s.split(sep, maxsplit) for a separator of any length: the leftmost
   occurrences that do not overlap, at most maxsplit of them. *)
RECURSIVE SplitN(_, _, _)
SplitN(s, sep, maxsplit) ==
    LET hits == {i \in 1..(Len(s) - Len(sep) + 1) :
                    SubSeq(s, i, i + Len(sep) - 1) = sep}
    IN  IF maxsplit = 0 \/ hits = {} THEN <<s>>
        ELSE LET j == CHOOSE i \in hits : \A k \in hits : i <= k
             IN  <<SubSeq(s, 1, j - 1)>>
                 \o SplitN(SubSeq(s, j + Len(sep), Len(s)), sep, maxsplit - 1)

(* ch in s *)
Contains(s, ch) == \E i \in 1..Len(s) : s[i] = ch

(* sep.join(parts) *)
RECURSIVE Join(_, _)
Join(parts, sep) ==
    IF parts = <<>> THEN <<>>
    ELSE IF Len(parts) = 1 THEN Head(parts)
    ELSE Head(parts) \o <<sep>> \o Join(Tail(parts), sep)

(* s.replace(old, new) for one-character old and new. *)
Replace(s, old, new) ==
    [i \in 1..Len(s) |-> IF s[i] = old THEN new ELSE s[i]]

(* Index of the last occurrence of ch in s, 0 when there is none
   (s.rfind(ch) + 1). *)
RECURSIVE RFind(_, _)
RFind(s, ch) ==
    IF s = <<>> THEN 0
    ELSE IF s[Len(s)] = ch THEN Len(s)
    ELSE RFind(SubSeq(s, 1, Len(s) - 1), ch)

----------------------------------------------------------------------------
(* Names used by the code and by the documentation trees *)

DotMd       == <<".", "m", "d">>
DotMarkdown == <<".", "m", "a", "r", "k", "d", "o", "w", "n">>
ReadmeMd    == <<"R", "E", "A", "D", "M", "E">> \o DotMd
IndexMd     == <<"i", "n", "d", "e", "x">> \o DotMd
DotDot      == <<".", ".">>
Dot         == <<".">>
Placeholder == <<"D", "o", "c", "u", "m", "e", "n", "t", "a", "t", "i", "o", "n">>
RootCategory == <<"r", "o", "o", "t">>

----------------------------------------------------------------------------
(* pathlib.PurePosixPath *)

(* The segments pathlib keeps when it parses a relative path string: empty
   segments and "." segments are dropped, ".." segments are kept. *)
ParseParts(s) ==
    SelectSeq(Split(s, "/"), LAMBDA seg : seg # <<>> /\ seg # Dot)

(* base / s, for a string s that does not begin with "/". *)
Div(base, s) == base \o ParseParts(s)

(* path.parts: the anchor "/" followed by the segments. *)
Parts(p) == << <<"/">> >> \o p

(* path.name and path.parent *)
Name(p) == p[Len(p)]

Parent(p) == IF p = <<>> THEN <<>> ELSE SubSeq(p, 1, Len(p) - 1)

(* path.stem: the name without its last suffix. *)
Stem(p) ==
    LET name == Name(p)
        i    == RFind(name, ".")
    IN  IF 1 < i /\ i < Len(name) THEN SubSeq(name, 1, i - 1) ELSE name

IsPrefix(p, q) ==
    /\ Len(p) <= Len(q)
    /\ SubSeq(q, 1, Len(p)) = p

(* path.relative_to(base): purely lexical. *)
RelativeTo(p, base) == SubSeq(p, Len(base) + 1, Len(p))

(* str(path) of a relative path. *)
PathStr(rel) == Join(rel, "/")

(* The location a path names once its ".." segments are resolved. *)
RECURSIVE Normalize(_, _)
Normalize(cur, rest) ==
    IF rest = <<>> THEN cur
    ELSE IF Head(rest) = DotDot THEN Normalize(Parent(cur), Tail(rest))
    ELSE Normalize(Append(cur, Head(rest)), Tail(rest))

----------------------------------------------------------------------------
(* The filesystem *)

App      == <<"a", "p", "p">>
Docs     == <<"d", "o", "c", "s">>
DotDocs  == <<".">> \o Docs

(* Values of settings.DOCS_ROOT: the default, and a hidden directory. *)
Roots == { <<App, Docs>>, <<App, DotDocs>> }

(* Directories above the documentation root; they always exist. *)
FixedDirs == { <<>>, <<App>> }

Absent   == [kind |-> "absent",  data |-> <<>>]
Dir      == [kind |-> "dir",     data |-> <<>>]
(* A symbolic link whose target does not exist. *)
Dangling == [kind |-> "symlink", data |-> <<>>]
File(bytes) == [kind |-> "file", data |-> bytes]
(* A directory whose mode gives the process no read permission. *)
NoReadMode == <<"d-wx------">>
DirNoRead  == [kind |-> "dir", data |-> NoReadMode]

(* A byte sequence that is not valid UTF-8. *)
InvalidUtf8 == <<"0xFF">>

n_a_md     == <<"a">> \o DotMd
n_b_md     == <<"b">> \o DotMd
n_c        == <<"c">>
n_a        == <<"a">>
n_c_bs_a_md == <<"c", "\\", "a">> \o DotMd
n_dot_g    == <<".", "g">>
n_n_md     == <<"n">> \o DotMd
n_n_markdown == <<"n">> \o DotMarkdown
n_s_md     == <<"s">> \o DotMd

(* The file outside the documentation root. *)
Outside == <<App, n_s_md>>

(* The nodes a documentation tree may hold, relative to the root, each with
   the states it may be created in. *)
TreeNodes ==
    { << <<n_a_md>>, {File(<<"#", " ", "A">>)} >>,
      << <<n_b_md>>, {File(<<"b">>)} >>,
      << <<n_c>>, {Dir} >>,
      << <<n_c, n_a_md>>, {File(<<"#", " ", "C">>), File(InvalidUtf8), Dangling, Dir} >>,
      << <<n_c, n_a_md, ReadmeMd>>, {File(<<"#", " ", "D">>)} >>,
      << <<n_c, n_a_md, IndexMd>>, {File(<<"#", " ", "I">>)} >>,
      << <<n_c, n_a>>, {File(<<"#", " ", "X">>), Dir} >>,
      << <<n_c, n_a_md \o DotMd>>, {File(<<"#", " ", "M">>)} >>,
      << <<n_c, ReadmeMd>>, {File(<<"#", " ", "R">>)} >>,
      << <<n_c, IndexMd>>, {File(<<"#", " ", "E">>)} >>,
      << <<n_c_bs_a_md>>, {File(<<"#", " ", "B">>)} >>,
      << <<n_dot_g>>, {Dir} >>,
      << <<n_dot_g, n_n_md>>, {File(<<"#", " ", "H">>)} >>,
      << <<n_n_markdown>>, {File(<<"n">>)} >> }

(* The absolute paths the filesystem is defined on, and the states a node
   may be created in. *)
Nodes(root) == {root, Outside} \cup {root \o t[1] : t \in TreeNodes}

Creatable(root, n) ==
    IF n = root THEN {Dir}
    ELSE IF n = Outside THEN {File(<<"#", " ", "S">>)}
    ELSE UNION {t[2] : t \in {u \in TreeNodes : root \o u[1] = n}}

(* The node at a location that has no ".." segments. *)
NodeAt(q) ==
    IF q \in FixedDirs THEN Dir
    ELSE IF q \in DOMAIN fs THEN fs[q]
    ELSE Absent

(* The failure of stat(2) that pathlib does not turn into "does not exist":
   ENAMETOOLONG. *)
NameTooLong == [kind |-> "ENAMETOOLONG", data |-> <<>>]

(* stat(2) of a path: every segment but the last must name a directory,
   ".." steps to the parent, a dangling link resolves to nothing, and a
   segment of more than 255 characters (NAME_MAX) in an existing directory
   is an error. *)
RECURSIVE Walk(_, _)
Walk(cur, rest) ==
    IF rest = <<>> THEN NodeAt(cur)
    ELSE IF NodeAt(cur).kind # "dir" THEN Absent
    ELSE IF Head(rest) = DotDot THEN Walk(Parent(cur), Tail(rest))
    ELSE IF Len(Head(rest)) > 255 THEN NameTooLong
    ELSE Walk(Append(cur, Head(rest)), Tail(rest))

Lookup(p) == Walk(<<>>, p)

(* Path.exists(), Path.is_file(), Path.is_dir(): all follow links; they
   return False for a path that resolves to nothing and raise OSError when
   stat fails otherwise. *)
OSError(p) == Lookup(p).kind = "ENAMETOOLONG"
exists(p)  == Lookup(p).kind \in {"file", "dir"}
is_file(p) == Lookup(p).kind = "file"
is_dir(p)  == Lookup(p).kind = "dir"

(* Path.stat(): raises for a path that resolves to nothing. *)
StatRaises(p) == ~exists(p)

(* os.access(p, os.R_OK) *)
access_R_OK(p) == exists(p) /\ Lookup(p).data # NoReadMode

(* Path.stat().st_size *)
st_size(p) == IF is_file(p) THEN Len(Lookup(p).data) ELSE 4096

(* open(p, "r", encoding="utf-8").read(): raises for a directory, for a
   path that resolves to nothing and for bytes that are not UTF-8. *)
ReadRaises(p) ==
    \/ ~is_file(p)
    \/ \E i \in 1..Len(Lookup(p).data) : Lookup(p).data[i] = "0xFF"

(* Text mode with newline=None: "\r\n" and a lone "\r" are read as "\n". *)
RECURSIVE UniversalNewlines(_)
UniversalNewlines(data) ==
    IF data = <<>> THEN <<>>
    ELSE IF Head(data) = "\r"
    THEN <<"\n">> \o UniversalNewlines(IF Len(data) > 1 /\ data[2] = "\n"
                                       THEN SubSeq(data, 3, Len(data))
                                       ELSE Tail(data))
    ELSE <<Head(data)>> \o UniversalNewlines(Tail(data))

(* doc_file.read_text(encoding="utf-8") when it does not raise. *)
ReadText(p) == UniversalNewlines(Lookup(p).data)

----------------------------------------------------------------------------
(* app/routes/docs.py *)

(* The outcome of find_doc_file: None, the path found, or the OSError that
   escapes from it. *)
None     == [found |-> FALSE, file |-> <<>>, raised |-> FALSE]
Found(p) == [found |-> TRUE,  file |-> p,    raised |-> FALSE]
Raised   == [found |-> FALSE, file |-> <<>>, raised |-> TRUE]

(* Optional[str] query parameter: missing, or the string given. *)
NoCategory == [given |-> FALSE, val |-> <<>>]
Cat(s) == [given |-> TRUE, val |-> s]

get_docs_root == docsRoot

(* find_doc_file without the attempt at path + ".md". *)
find_doc_file_no_inference(path) ==
    LET docs_root == get_docs_root
        p        == Strip(path, {"/"})
        exact    == Div(docs_root, p)
    IN  IF p = <<>> THEN None
        ELSE IF OSError(exact) THEN Raised
        ELSE IF exists(exact) /\ is_file(exact) THEN Found(exact)
        ELSE IF is_dir(exact)
             THEN IF exists(Append(exact, ReadmeMd))
                  THEN Found(Append(exact, ReadmeMd))
                  ELSE IF exists(Append(exact, IndexMd))
                       THEN Found(Append(exact, IndexMd))
                       ELSE None
        ELSE None

find_doc_file(path) ==
    LET docs_root == get_docs_root
        p        == Strip(path, {"/"})
        exact    == Div(docs_root, p)
        noSuffix == ~(EndsWith(p, DotMd) \/ EndsWith(p, DotMarkdown))
        withMd   == Div(docs_root, p \o DotMd)
        (* doc_path as it stands when the directory test is reached *)
        doc_path == IF noSuffix THEN withMd ELSE exact
    IN  IF p = <<>> THEN None
        ELSE IF OSError(exact) THEN Raised
        ELSE IF exists(exact) /\ is_file(exact) THEN Found(exact)
        ELSE IF noSuffix /\ OSError(withMd) THEN Raised
        ELSE IF noSuffix /\ exists(withMd) /\ is_file(withMd) THEN Found(withMd)
        ELSE IF is_dir(doc_path)
             THEN IF exists(Append(doc_path, ReadmeMd))
                  THEN Found(Append(doc_path, ReadmeMd))
                  ELSE IF exists(Append(doc_path, IndexMd))
                       THEN Found(Append(doc_path, IndexMd))
                       ELSE None
        ELSE None

(* A dict: a function from its keys to their values. *)
EmptyDict == [k \in {} |-> <<>>]

(* d[key] = value *)
SetItem(d, key, value) == (key :> value) @@ d

(* md.convert(content): the Markdown library is outside the repository; its
   output is kept as the source text it was given, marked as rendered. *)
md_convert(content) == [markdown |-> content]

(* formatter.get_style_defs(): the fixed style sheet of the formatter. *)
get_style_defs == "codehilite-default"

Dashes == <<"-", "-", "-">>

(* The loop over the front-matter lines. *)
RECURSIVE frontmatter_loop(_, _)
frontmatter_loop(lines, metadata) ==
    IF lines = <<>> THEN metadata
    ELSE LET line == Head(lines)
         IN  IF Contains(line, ":")
             THEN LET kv    == SplitN(line, <<":">>, 1)
                      key   == Strip(kv[1], Whitespace)
                      value == Strip(Strip(Strip(kv[2], Whitespace),
                                           {"\""}), {"'"})
                  IN  frontmatter_loop(Tail(lines),
                                       SetItem(metadata, key, value))
             ELSE frontmatter_loop(Tail(lines), metadata)

(* parse_markdown(content) -> (html, metadata) *)
parse_markdown(content) ==
    LET parts    == SplitN(content, Dashes, 2)
        split_ok == StartsWith(content, Dashes) /\ Len(parts) >= 3
        frontmatter == Strip(parts[2], Whitespace)
        body     == IF split_ok THEN Strip(parts[3], Whitespace) ELSE content
        metadata == IF split_ok
                    THEN frontmatter_loop(Split(frontmatter, "\n"), EmptyDict)
                    ELSE EmptyDict
    IN  [html     |-> [style |-> get_style_defs, body |-> md_convert(body)],
         metadata |-> metadata]

RECURSIVE FirstTitle(_)
FirstTitle(lines) ==
    IF lines = <<>> THEN Placeholder
    ELSE IF StartsWith(Head(lines), <<"#", " ">>)
         THEN Strip(SubSeq(Head(lines), 3, Len(Head(lines))), Whitespace)
         ELSE FirstTitle(Tail(lines))

(* The title taken from the first line that begins with "#", whatever
   follows it. *)
extract_title_any_heading(content) ==
    LET lines == Split(content, "\n")
        heads == {i \in 1..Len(lines) : StartsWith(lines[i], <<"#">>)}
    IN  IF heads = {} THEN Placeholder
        ELSE LET i == CHOOSE h \in heads : \A k \in heads : h <= k
             IN  Strip(SubSeq(lines[i], 3, Len(lines[i])), Whitespace)

extract_title(content) == FirstTitle(Split(content, "\n"))

(* The hidden test applied to the file name alone. *)
in_hidden_name_only(md_file) == StartsWith(Name(md_file), <<".">>)

(* any(part.startswith(".") for part in md_file.parts) *)
in_hidden(md_file) ==
    \E i \in 1..Len(Parts(md_file)) : StartsWith(Parts(md_file)[i], <<".">>)

(* category not in md_file.parts *)
not_in_category(category, md_file) ==
    ~\E i \in 1..Len(Parts(md_file)) : Parts(md_file)[i] = category.val

(* str(rel_path).replace("\\", "/") *)
path_str(rel_path) == Replace(PathStr(rel_path), "\\", "/")

(* The entry with the file name stem as its title in every case. *)
entry_stem_title(md_file) ==
    LET rel_path == RelativeTo(md_file, get_docs_root)
    IN  [path     |-> path_str(rel_path),
         title    |-> Stem(md_file),
         size     |-> st_size(md_file),
         category |-> IF Len(rel_path) > 1 THEN rel_path[1] ELSE RootCategory]

(* The dictionary list_docs appends for one candidate. *)
entry(md_file) ==
    LET rel_path == RelativeTo(md_file, get_docs_root)
    IN  [path     |-> path_str(rel_path),
         title    |-> IF ReadRaises(md_file) THEN Stem(md_file)
                      ELSE extract_title(ReadText(md_file)),
         size     |-> st_size(md_file),
         category |-> IF Len(rel_path) > 1 THEN rel_path[1] ELSE RootCategory]

(* The loop over md_files: the entries in candidate order, or the exception
   that md_file.stat() raises. *)
RECURSIVE list_loop(_, _, _)
list_loop(md_files, category, files) ==
    IF md_files = <<>> THEN [raised |-> FALSE, files |-> files]
    ELSE LET md_file == Head(md_files)
         IN  IF in_hidden(md_file)
             THEN list_loop(Tail(md_files), category, files)
             ELSE IF category.given /\ category.val # <<>>
                     /\ not_in_category(category, md_file)
             THEN list_loop(Tail(md_files), category, files)
             ELSE IF StatRaises(md_file)
             THEN [raised |-> TRUE, files |-> <<>>]
             ELSE list_loop(Tail(md_files), category,
                            Append(files, entry(md_file)))

(* files.sort(key=lambda x: x["path"]): a stable sort. *)
RECURSIVE insert(_, _)
insert(sorted, e) ==
    IF sorted = <<>> THEN <<e>>
    ELSE IF StrLess(e.path, Head(sorted).path) THEN <<e>> \o sorted
    ELSE <<Head(sorted)>> \o insert(Tail(sorted), e)

RECURSIVE sort_by_path(_)
sort_by_path(files) ==
    IF files = <<>> THEN <<>>
    ELSE insert(sort_by_path(SubSeq(files, 1, Len(files) - 1)),
                files[Len(files)])

(* docs_root.glob("**/" + "*" + suffix): every entry below the root whose
   name ends with the suffix, whatever it is (file, directory or link). *)
glob(suffix) ==
    {q \in DOMAIN fs : /\ IsPrefix(get_docs_root, q)
                       /\ q # get_docs_root
                       /\ fs[q].kind # "absent"
                       /\ EndsWith(Name(q), suffix)}

(* The orders in which a directory scan may deliver a set of entries. *)
RECURSIVE Orders(_)
Orders(S) ==
    IF S = {} THEN {<<>>}
    ELSE UNION {{<<x>> \o o : o \in Orders(S \ {x})} : x \in S}

(* list(glob("**/*.md")) + list(glob("**/*.markdown")) *)
GlobResults == {m \o k : m \in Orders(glob(DotMd)), k \in Orders(glob(DotMarkdown))}

(* The listing with every category taken from the directory that holds the
   file. *)
list_docs_parent_category(md_files, category) ==
    IF ~exists(get_docs_root)
    THEN [status |-> 500, files |-> <<>>, total |-> 0]
    ELSE LET r == list_loop(md_files, category, <<>>)
             parent(e) == LET segs == Split(e.path, "/")
                          IN  IF Len(segs) > 1 THEN segs[Len(segs) - 1]
                              ELSE RootCategory
         IN  IF r.raised
             THEN [status |-> 500, files |-> <<>>, total |-> 0]
             ELSE [status |-> 200,
                   files  |-> sort_by_path(
                                  [i \in 1..Len(r.files) |->
                                      [r.files[i] EXCEPT
                                          !.category = parent(r.files[i])]]),
                   total  |-> Len(r.files)]

list_docs(md_files, category) ==
    IF ~exists(get_docs_root)
    THEN [status |-> 500, files |-> <<>>, total |-> 0]
    ELSE LET r == list_loop(md_files, category, <<>>)
         IN  IF r.raised
             THEN [status |-> 500, files |-> <<>>, total |-> 0]
             ELSE [status |-> 200,
                   files  |-> sort_by_path(r.files),
                   total  |-> Len(r.files)]

(* Optional[dict]: None, or the dict given. *)
NoMetadata == [null |-> TRUE, dict |-> EmptyDict]

(* The dict passed on even when it is empty. *)
optional_metadata_never_none(metadata) == [null |-> FALSE, dict |-> metadata]

(* metadata=metadata if metadata else None *)
optional_metadata(metadata) ==
    IF DOMAIN metadata # {} THEN [null |-> FALSE, dict |-> metadata]
    ELSE NoMetadata

NoHtml == [style |-> "", body |-> md_convert(<<>>)]

NoDoc == [path |-> <<>>, title |-> <<>>, content |-> <<>>,
          html |-> NoHtml, metadata |-> NoMetadata]

TitleSuffix == <<" ", "-", " ", "W", "o", "r", "a", "g", "i", "s",
                 " ", "D", "o", "c", "s">>

(* The f-string template of the full page: its fixed pieces in order, with
   the two interpolated values in their places. *)
html_page(title, html) ==
    << "<!DOCTYPE html>", "<html lang=\"en\">", "<head>",
       "<meta charset=\"UTF-8\">", "<meta name=\"viewport\">",
       "<title>", title \o TitleSuffix, "</title>",
       "<style>", "</style>", "</head>",
       "<body>", html, "</body>", "</html>" >>

NoPage == <<>>

(* raise HTTPException(status_code=404, ...) *)
not_found(doc_file) ==
    [status |-> 404, ctype |-> "application/json",
     doc |-> NoDoc, page |-> NoPage, doc_file |-> doc_file]

(* The 500 answers: of get_doc's own handler (application/json) and of the
   framework for an exception no handler catches (text/plain). *)
server_error(ctype, doc_file) ==
    [status |-> 500, ctype |-> ctype,
     doc |-> NoDoc, page |-> NoPage, doc_file |-> doc_file]

(* The answer built with the title taken from the body that parse_markdown
   rendered. *)
render_doc_body_title(doc_file, content, format) ==
    LET parsed   == parse_markdown(content)
        title    == extract_title(parsed.html.body.markdown)
        rel_path == RelativeTo(doc_file.file, get_docs_root)
        response_data ==
            [path     |-> path_str(rel_path),
             title    |-> title,
             content  |-> content,
             html     |-> parsed.html,
             metadata |-> optional_metadata(parsed.metadata)]
    (* doc is response_data as built; page is the HTMLResponse returned in
       its place when the format is "html" *)
    IN  IF format = "html"
        THEN [status |-> 200, ctype |-> "text/html",
              doc |-> response_data,
              page |-> html_page(title, parsed.html),
              doc_file |-> doc_file]
        ELSE [status |-> 200, ctype |-> "application/json",
              doc |-> response_data, page |-> NoPage,
              doc_file |-> doc_file]

(* get_doc from the text read on: parse, extract the title, build the
   answer in the format asked for. *)
render_doc(doc_file, content, format) ==
    LET parsed   == parse_markdown(content)
        title    == extract_title(content)
        rel_path == RelativeTo(doc_file.file, get_docs_root)
        response_data ==
            [path     |-> path_str(rel_path),
             title    |-> title,
             content  |-> content,
             html     |-> parsed.html,
             metadata |-> optional_metadata(parsed.metadata)]
    (* doc is response_data as built; page is the HTMLResponse returned in
       its place when the format is "html" *)
    IN  IF format = "html"
        THEN [status |-> 200, ctype |-> "text/html",
              doc |-> response_data,
              page |-> html_page(title, parsed.html),
              doc_file |-> doc_file]
        ELSE [status |-> 200, ctype |-> "application/json",
              doc |-> response_data, page |-> NoPage,
              doc_file |-> doc_file]

get_doc(path, format) ==
    LET doc_file == find_doc_file(path)
    IN  IF doc_file.raised THEN server_error("text/plain", doc_file)
        ELSE IF ~doc_file.found THEN not_found(doc_file)
        ELSE IF ReadRaises(doc_file.file)
        THEN server_error("application/json", doc_file)
        ELSE render_doc(doc_file, ReadText(doc_file.file), format)

----------------------------------------------------------------------------
(* app/health.py *)

(* Cache time-to-live in seconds. *)
cache_ttl == 5

(* The defaults of the ContextVars _health_cache and _cache_timestamp. *)
DefaultContext == [health_cache |-> EmptyDict, cache_timestamp |-> 0]

check(name, ok) == [name |-> name, status |-> IF ok THEN "ok" ELSE "error"]

(* The computation with an error of the markdown_files check counted as
   unhealthy. *)
compute_health_strict(rglob_raises) ==
    LET docs_path     == docsRoot
        docs_exists   == exists(docs_path)
        docs_readable == docs_exists /\ access_R_OK(docs_path)
        checks ==
            << check("service", TRUE), check("docs_directory", docs_exists) >>
            \o (IF docs_exists
                THEN << check("docs_readable", docs_readable),
                        check("markdown_files", ~rglob_raises) >>
                ELSE <<>>)
        status == IF ~docs_exists THEN "unhealthy"
                  ELSE IF ~docs_readable \/ rglob_raises THEN "unhealthy"
                  ELSE "healthy"
    IN  [status |-> status, service |-> "docs-service", checks |-> checks]

(* check_health past the cache test: the result computed from the
   filesystem; rglob_raises tells whether scanning for Markdown files
   raised. *)
compute_health(rglob_raises) ==
    LET docs_path     == docsRoot
        docs_exists   == exists(docs_path)
        docs_readable == docs_exists /\ access_R_OK(docs_path)
        checks ==
            << check("service", TRUE), check("docs_directory", docs_exists) >>
            \o (IF docs_exists
                THEN << check("docs_readable", docs_readable),
                        check("markdown_files", ~rglob_raises) >>
                ELSE <<>>)
        status == IF ~docs_exists THEN "unhealthy"
                  ELSE IF ~docs_readable THEN "unhealthy"
                  ELSE "healthy"
    IN  [status |-> status, service |-> "docs-service", checks |-> checks]

(* check_health() run in the context ctx at time t: the result returned,
   the context as the call leaves it, and whether the filesystem was
   probed. *)
check_health(ctx, t, rglob_raises) ==
    LET cache     == ctx.health_cache
        timestamp == ctx.cache_timestamp
    IN  IF DOMAIN cache # {} /\ (t - timestamp) < cache_ttl
        THEN [result |-> cache, context |-> ctx, probed |-> FALSE]
        ELSE LET result == compute_health(rglob_raises)
             IN  [result  |-> result,
                  context |-> [health_cache |-> result, cache_timestamp |-> t],
                  probed  |-> TRUE]

(* healthz(): the status code chosen for a result. *)
healthz_status_code(result) ==
    IF result.status = "unhealthy" THEN 503 ELSE 200

----------------------------------------------------------------------------
(* Requests *)

P_c       == n_c
P_c_a     == Join(<<n_c, n_a>>, "/")
P_c_a_md  == Join(<<n_c, n_a_md>>, "/")
P_bs      == n_c_bs_a_md
P_up_s_md == Join(<<DotDot, n_s_md>>, "/")
P_slash   == <<"/">>
(* A name of 256 characters. *)
P_long    == [i \in 1..256 |-> "a"]

LogicalPaths == {P_c, P_c_a, P_c_a_md, P_bs, P_up_s_md, P_slash, P_long}

Formats == {"json", "html"}

Categories == {NoCategory, Cat(<<>>), Cat(n_c), Cat(n_a), Cat(Docs)}

NoReq  == [op |-> "none"]
NoResp == [status |-> 0]

(* No client, and no health result computed yet. *)
NoTasks    == <<>>
NoComputed == [valid |-> FALSE, at |-> 0, result |-> EmptyDict]

----------------------------------------------------------------------------
(* The state machine *)

Present == {n \in DOMAIN fs : fs[n].kind # "absent"}

Init ==
    /\ docsRoot \in Roots
    /\ fs = [n \in Nodes(docsRoot) |-> IF n = docsRoot THEN Dir ELSE Absent]
    /\ req = NoReq
    /\ resp = NoResp
    /\ tasks = NoTasks
    /\ now = 0
    /\ context = DefaultContext
    /\ computed = NoComputed
    /\ log = <<>>

(* Another process creates a file, a directory or a link in an existing
   directory. *)
FsCreate(n, st) ==
    /\ req = NoReq
    /\ fs[n].kind = "absent"
    /\ NodeAt(Parent(n)).kind = "dir"
    /\ st \in Creatable(docsRoot, n)
    /\ Cardinality(Present \ {docsRoot}) < MaxNodes
    /\ fs' = [fs EXCEPT ![n] = st]
    /\ UNCHANGED <<docsRoot, req, resp, tasks, now, context, computed, log>>

(* Another process removes a file, a link or an empty directory. *)
FsRemove(n) ==
    /\ req = NoReq
    /\ fs[n].kind # "absent"
    /\ ~\E m \in Present : Len(m) > Len(n) /\ IsPrefix(n, m)
    /\ fs' = [fs EXCEPT ![n] = Absent]
    /\ UNCHANGED <<docsRoot, req, resp, tasks, now, context, computed, log>>

(* GET /api/v1/docs/?category=... : the handler runs to its response. *)
ListDocs(category) ==
    /\ req = NoReq
    /\ \E md_files \in GlobResults :
          resp' = list_docs(md_files, category)
    /\ req' = [op |-> "list", category |-> category]
    /\ UNCHANGED <<docsRoot, fs, tasks, now, context, computed, log>>

(* GET /api/v1/docs/{path}?format=... : the handler runs to its response. *)
GetDoc(path, format) ==
    /\ req = NoReq
    /\ resp' = get_doc(path, format)
    /\ req' = [op |-> "get", path |-> path, format |-> format]
    /\ UNCHANGED <<docsRoot, fs, tasks, now, context, computed, log>>

(* The response leaves the service, which keeps nothing of the request. *)
Respond ==
    /\ req # NoReq
    /\ req' = NoReq
    /\ resp' = NoResp
    /\ UNCHANGED <<docsRoot, fs, tasks, now, context, computed, log>>

Next ==
    \/ \E n \in DOMAIN fs : \E st \in Creatable(docsRoot, n) : FsCreate(n, st)
    \/ \E n \in DOMAIN fs : FsRemove(n)
    \/ \E category \in Categories : ListDocs(category)
    \/ \E path \in LogicalPaths, format \in Formats : GetDoc(path, format)
    \/ Respond

Spec == Init /\ [][Next]_vars

----------------------------------------------------------------------------
(* One document, its text drawn from a bounded set, parsed and served *)

(* Bound on the number of lines of the document. *)
MaxLines == 4

L_kv    == <<" ", "k", " ", ":", " ", "\"", "a", ":", "b", "\"">>
L_jv    == <<"j", ":", " ", "a", "-", "-", "-", "b">>
L_title == <<"#", " ", "T", " ">>
L_h2    == <<"#", "#", " ", "U">>
L_hash  == <<"#", "V">>
L_cr    == <<"t", "\r">>

DocLines == {Dashes, L_kv, L_jv, L_title, L_h2, L_hash, L_cr}

(* The file contents: up to MaxLines lines joined by "\n". *)
DocBytes ==
    {Join(ls, "\n") : ls \in UNION {[1..n -> DocLines] : n \in 1..MaxLines}}

DocRoot == <<App, Docs>>
DocFile == Append(DocRoot, n_a_md)

DocInit ==
    /\ docsRoot = DocRoot
    /\ \E bytes \in DocBytes :
          fs = [n \in Nodes(DocRoot) |->
                   IF n = DocRoot THEN Dir
                   ELSE IF n = DocFile THEN File(bytes)
                   ELSE Absent]
    /\ req = NoReq
    /\ resp = NoResp
    /\ tasks = NoTasks
    /\ now = 0
    /\ context = DefaultContext
    /\ computed = NoComputed
    /\ log = <<>>

(* parse_markdown applied to the text of the document. *)
ParseMarkdown ==
    /\ req = NoReq
    /\ req' = [op |-> "parse_markdown", content |-> ReadText(DocFile)]
    /\ resp' = parse_markdown(ReadText(DocFile))
    /\ UNCHANGED <<docsRoot, fs, tasks, now, context, computed, log>>

(* extract_title applied to the text of the document. *)
ExtractTitle ==
    /\ req = NoReq
    /\ req' = [op |-> "extract_title", content |-> ReadText(DocFile)]
    /\ resp' = [title |-> extract_title(ReadText(DocFile))]
    /\ UNCHANGED <<docsRoot, fs, tasks, now, context, computed, log>>

DocNext ==
    \/ ParseMarkdown
    \/ ExtractTitle
    \/ \E format \in Formats : GetDoc(n_a, format)
    \/ ListDocs(NoCategory)
    \/ Respond

DocSpec == DocInit /\ [][DocNext]_vars

----------------------------------------------------------------------------
(* Requests in flight at the same time.  Each client's request runs the
   steps of its handler with its own local variables; the steps of different
   requests interleave in any order, as they do between worker threads (on
   one event loop each handler runs from its first line to its last without
   giving way, which is one of these interleavings). *)

(* Bound on the number of clients with a request in flight. *)
MaxClients == 2

Clients == 1..MaxClients

(* The local variables of a handler that has not started. *)
Idle == [pc |-> "idle", req |-> NoReq, doc_file |-> None, content |-> <<>>,
         md_files |-> <<>>, resp |-> NoResp]

ConcRequests ==
    { [op |-> "get", path |-> P_c_a, format |-> "json"],
      [op |-> "get", path |-> P_c_a_md, format |-> "html"],
      [op |-> "list", category |-> NoCategory] }

(* The part of the tree other processes change between requests. *)
ConcNodes == { Append(DocRoot, n_c), DocRoot \o <<n_c, n_a_md>>,
               DocRoot \o <<n_c, n_a>> }

AllIdle == \A c \in Clients : tasks[c].pc = "idle"

ConcInit ==
    /\ docsRoot = DocRoot
    /\ fs = [n \in Nodes(DocRoot) |-> IF n = DocRoot THEN Dir ELSE Absent]
    /\ req = NoReq
    /\ resp = NoResp
    /\ tasks = [c \in Clients |-> Idle]
    /\ now = 0
    /\ context = DefaultContext
    /\ computed = NoComputed
    /\ log = <<>>

ConcFsCreate(n, st) == AllIdle /\ n \in ConcNodes /\ FsCreate(n, st)

ConcFsRemove(n) == AllIdle /\ n \in ConcNodes /\ FsRemove(n)

(* The router hands the request to its handler. *)
Arrive(c, r) ==
    /\ tasks[c].pc = "idle"
    /\ tasks' = [tasks EXCEPT ![c] =
                    [Idle EXCEPT !.req = r,
                                 !.pc = IF r.op = "get" THEN "resolve"
                                        ELSE "glob"]]
    /\ UNCHANGED <<docsRoot, fs, req, resp, now, context, computed, log>>

(* The resolution kept in a process-wide dict and taken from there when
   the same path is asked for again. *)
Resolve_memo(c) ==
    LET t == tasks[c]
        memo == context.health_cache
        doc_file == IF t.req.path \in DOMAIN memo THEN memo[t.req.path]
                    ELSE find_doc_file(t.req.path)
    IN  /\ t.pc = "resolve"
        /\ tasks' = [tasks EXCEPT ![c] =
              IF doc_file.raised
              THEN [t EXCEPT !.pc = "done", !.doc_file = doc_file,
                             !.resp = server_error("text/plain", doc_file)]
              ELSE IF ~doc_file.found
              THEN [t EXCEPT !.pc = "done", !.doc_file = doc_file,
                             !.resp = not_found(doc_file)]
              ELSE [t EXCEPT !.pc = "read", !.doc_file = doc_file]]
        /\ context' = [context EXCEPT !.health_cache =
                                          SetItem(memo, t.req.path, doc_file)]
        /\ UNCHANGED <<docsRoot, fs, req, resp, now, computed, log>>

(* get_doc: doc_file = find_doc_file(path), and the 404. *)
Resolve(c) ==
    LET t == tasks[c]
        doc_file == find_doc_file(t.req.path)
    IN  /\ t.pc = "resolve"
        /\ tasks' = [tasks EXCEPT ![c] =
              IF doc_file.raised
              THEN [t EXCEPT !.pc = "done", !.doc_file = doc_file,
                             !.resp = server_error("text/plain", doc_file)]
              ELSE IF ~doc_file.found
              THEN [t EXCEPT !.pc = "done", !.doc_file = doc_file,
                             !.resp = not_found(doc_file)]
              ELSE [t EXCEPT !.pc = "read", !.doc_file = doc_file]]
        /\ UNCHANGED <<docsRoot, fs, req, resp, now, context, computed, log>>

(* The read that fails as well whenever another request in flight has
   failed. *)
Read_shared_failure(c) ==
    LET t == tasks[c]
        failed == \E d \in Clients \ {c} : /\ tasks[d].pc = "done"
                                           /\ tasks[d].resp.status = 500
    IN  /\ t.pc = "read"
        /\ tasks' = [tasks EXCEPT ![c] =
              IF failed \/ ReadRaises(t.doc_file.file)
              THEN [t EXCEPT !.pc = "done",
                        !.resp = server_error("application/json", t.doc_file)]
              ELSE [t EXCEPT !.pc = "render",
                             !.content = ReadText(t.doc_file.file)]]
        /\ UNCHANGED <<docsRoot, fs, req, resp, now, context, computed, log>>

(* get_doc: content = doc_file.read_text(...), and the 500. *)
Read(c) ==
    LET t == tasks[c]
    IN  /\ t.pc = "read"
        /\ tasks' = [tasks EXCEPT ![c] =
              IF ReadRaises(t.doc_file.file)
              THEN [t EXCEPT !.pc = "done",
                        !.resp = server_error("application/json", t.doc_file)]
              ELSE [t EXCEPT !.pc = "render",
                             !.content = ReadText(t.doc_file.file)]]
        /\ UNCHANGED <<docsRoot, fs, req, resp, now, context, computed, log>>

(* get_doc: parse, extract the title, build the answer. *)
Render(c) ==
    LET t == tasks[c]
    IN  /\ t.pc = "render"
        /\ tasks' = [tasks EXCEPT ![c] =
              [t EXCEPT !.pc = "done",
                        !.resp = render_doc(t.doc_file, t.content,
                                            t.req.format)]]
        /\ UNCHANGED <<docsRoot, fs, req, resp, now, context, computed, log>>

(* list_docs: the two directory scans. *)
Glob(c) ==
    LET t == tasks[c]
    IN  /\ t.pc = "glob"
        /\ \E md_files \in GlobResults :
              tasks' = [tasks EXCEPT ![c] =
                          [t EXCEPT !.pc = "loop", !.md_files = md_files]]
        /\ UNCHANGED <<docsRoot, fs, req, resp, now, context, computed, log>>

(* list_docs: the loop over the candidates, the sort and the answer. *)
Loop(c) ==
    LET t == tasks[c]
    IN  /\ t.pc = "loop"
        /\ tasks' = [tasks EXCEPT ![c] =
              [t EXCEPT !.pc = "done",
                        !.resp = list_docs(t.md_files, t.req.category)]]
        /\ UNCHANGED <<docsRoot, fs, req, resp, now, context, computed, log>>

(* The response leaves the service; the handler's locals are gone. *)
Finish(c) ==
    /\ tasks[c].pc = "done"
    /\ tasks' = [tasks EXCEPT ![c] = Idle]
    /\ UNCHANGED <<docsRoot, fs, req, resp, now, context, computed, log>>

ConcNext ==
    \/ \E n \in DOMAIN fs :
          \E st \in Creatable(docsRoot, n) : ConcFsCreate(n, st)
    \/ \E n \in DOMAIN fs : ConcFsRemove(n)
    \/ \E c \in Clients, r \in ConcRequests : Arrive(c, r)
    \/ \E c \in Clients : Resolve(c)
    \/ \E c \in Clients : Read(c)
    \/ \E c \in Clients : Render(c)
    \/ \E c \in Clients : Glob(c)
    \/ \E c \in Clients : Loop(c)
    \/ \E c \in Clients : Finish(c)

ConcSpec == ConcInit /\ [][ConcNext]_vars

----------------------------------------------------------------------------
(* The health check: GET /healthz requests, check_health called in the
   server's own context, the clock, and the docs directory changing *)

(* Bound on the clock. *)
MaxTime == 6

(* What may be found at DOCS_ROOT. *)
RootStates == {Absent, Dir, DirNoRead, File(<<>>), Dangling}

HealthInit ==
    /\ docsRoot = DocRoot
    /\ fs = [n \in Nodes(DocRoot) |-> IF n = DocRoot THEN Dir ELSE Absent]
    /\ req = NoReq
    /\ resp = NoResp
    /\ tasks = NoTasks
    /\ now = 0
    /\ context = DefaultContext
    /\ computed = NoComputed
    /\ log = <<>>

(* A second passes. *)
Tick ==
    /\ now < MaxTime
    /\ now' = now + 1
    /\ UNCHANGED <<docsRoot, fs, req, resp, tasks, context, computed, log>>

(* Another process removes, replaces or changes the mode of DOCS_ROOT. *)
SetDocsRoot(st) ==
    /\ req = NoReq
    /\ fs[docsRoot] # st
    /\ fs' = [fs EXCEPT ![docsRoot] = st]
    /\ UNCHANGED <<docsRoot, req, resp, tasks, now, context, computed, log>>

(* The history of computations after a call of check_health. *)
Computed(r) ==
    IF r.probed THEN [valid |-> TRUE, at |-> now, result |-> r.result]
    ELSE computed

(* GET /healthz: the endpoint is a plain def, so the framework runs it in a
   worker thread, in a copy of the server's context; what check_health sets
   there is in req.context and goes with the request. *)
Healthz(rglob_raises) ==
    /\ req = NoReq
    /\ LET r == check_health(context, now, rglob_raises)
       IN  /\ req' = [op |-> "healthz", context |-> r.context]
           /\ resp' = [status |-> healthz_status_code(r.result),
                       result |-> r.result, probed |-> r.probed]
           /\ computed' = Computed(r)
    /\ UNCHANGED <<docsRoot, fs, tasks, now, context, log>>

(* check_health() called in the server's own context, as the unit tests call
   it: what it sets stays. *)
CheckHealth(rglob_raises) ==
    /\ req = NoReq
    /\ LET r == check_health(context, now, rglob_raises)
       IN  /\ req' = [op |-> "check_health", context |-> r.context]
           /\ resp' = [status |-> 0, result |-> r.result, probed |-> r.probed]
           /\ context' = r.context
           /\ computed' = Computed(r)
    /\ UNCHANGED <<docsRoot, fs, tasks, now, log>>

HealthNext ==
    \/ Tick
    \/ \E st \in RootStates : SetDocsRoot(st)
    \/ \E rglob_raises \in BOOLEAN : Healthz(rglob_raises)
    \/ \E rglob_raises \in BOOLEAN : CheckHealth(rglob_raises)
    \/ Respond

HealthSpec == HealthInit /\ [][HealthNext]_vars

----------------------------------------------------------------------------
(* app/middleware.py and the middleware chain of app/main.py: one request
   at a time goes down the chain to the endpoint and its response, or the
   exception the endpoint raised, comes back up *)

(* Bound on the number of requests served. *)
MaxRequests == 2

(* Python's None, here for a request ID that was not there to read. *)
NoRequestId == "None"

RequestIDMiddleware     == "RequestIDMiddleware"
RequestLoggerMiddleware == "RequestLoggerMiddleware"

(* app.add_middleware(cls): the class is put in front of the ones added
   before it. *)
add_middleware(user_middleware, cls) == <<cls>> \o user_middleware

(* The chain main.py builds, the middleware that sees the request first at
   the head: Instrumentator().instrument(app) adds the Prometheus
   middleware, and settings.CORS_ENABLED is true unless the environment
   says otherwise. *)
user_middleware ==
    LET m1 == add_middleware(<<>>, RequestIDMiddleware)
        m2 == add_middleware(m1, RequestLoggerMiddleware)
        m3 == add_middleware(m2, "PrometheusInstrumentatorMiddleware")
    IN  add_middleware(m3, "CORSMiddleware")

(* The docs directory holds the directory c and the document c/a.md. *)
MwInit ==
    /\ docsRoot = DocRoot
    /\ fs = [n \in Nodes(DocRoot) |->
                IF n \in {DocRoot, Append(DocRoot, n_c)} THEN Dir
                ELSE IF n = DocRoot \o <<n_c, n_a_md>> THEN File(L_title)
                ELSE Absent]
    /\ req = NoReq
    /\ resp = NoResp
    /\ tasks = NoTasks
    /\ now = 0
    /\ context = DefaultContext
    /\ computed = NoComputed
    /\ log = <<>>

(* The server hands a request to the head of the chain, as long as fewer
   than MaxRequests reached the logger: a fresh request.state, and the
   locals of the two dispatch methods not yet set; log_start remembers how
   long the log was. *)
Receive(path, format) ==
    /\ req = NoReq
    /\ Cardinality({i \in DOMAIN log : log[i].event = "request_started"})
          < MaxRequests
    /\ req' = [op |-> "http", path |-> path, format |-> format,
               state |-> EmptyDict, depth |-> 0, phase |-> "request",
               request_id |->
                   [cls \in {RequestIDMiddleware, RequestLoggerMiddleware}
                       |-> NoRequestId],
               trace_id |-> NoRequestId, raised |-> FALSE,
               log_start |-> Len(log)]
    /\ UNCHANGED <<docsRoot, fs, resp, tasks, now, context, computed, log>>

(* In the given phase, the i-th middleware of the chain is the next to
   run, and its class is one of classes. *)
At(phase, i, classes) ==
    /\ req # NoReq
    /\ req.op = "http"
    /\ req.phase = phase
    /\ i \in 1..Len(user_middleware)
    /\ user_middleware[i] \in classes

(* RequestIDMiddleware.dispatch up to call_next. *)
RequestID_call ==
    /\ At("request", req.depth + 1, {RequestIDMiddleware})
    (* str(uuid.uuid4()) *)
    /\ \E request_id \in {"u1", "u2"} :
          req' = [req EXCEPT
                    !.request_id[RequestIDMiddleware] = request_id,
                    !.trace_id = request_id,
                    !.state = SetItem(req.state, "request_id", request_id),
                    !.depth = req.depth + 1]
    /\ UNCHANGED <<docsRoot, fs, resp, tasks, now, context, computed, log>>

(* RequestIDMiddleware.dispatch after call_next: the header is set when a
   response came back, and an exception passes through. *)
RequestID_return ==
    /\ At("response", req.depth, {RequestIDMiddleware})
    /\ req' = [req EXCEPT !.depth = req.depth - 1]
    /\ resp' = IF req.raised THEN resp
               ELSE [resp EXCEPT !.headers =
                        SetItem(resp.headers, "X-Request-ID",
                                req.request_id[RequestIDMiddleware])]
    /\ UNCHANGED <<docsRoot, fs, tasks, now, context, computed, log>>

(* RequestLoggerMiddleware.dispatch up to call_next. *)
RequestLogger_call ==
    /\ At("request", req.depth + 1, {RequestLoggerMiddleware})
    /\ LET (* getattr(request.state, "request_id", None) *)
           request_id == IF "request_id" \in DOMAIN req.state
                         THEN req.state["request_id"]
                         ELSE NoRequestId
       IN  /\ req' = [req EXCEPT
                        !.request_id[RequestLoggerMiddleware] = request_id,
                        !.depth = req.depth + 1]
           /\ log' = Append(log, [event |-> "request_started",
                                  path |-> req.path,
                                  request_id |-> request_id])
    /\ UNCHANGED <<docsRoot, fs, resp, tasks, now, context, computed>>

(* RequestLoggerMiddleware.dispatch after call_next: request_completed for
   a response, request_failed for an exception, which is raised again. *)
RequestLogger_return ==
    /\ At("response", req.depth, {RequestLoggerMiddleware})
    /\ req' = [req EXCEPT !.depth = req.depth - 1]
    /\ log' = Append(log,
                [event |-> IF req.raised THEN "request_failed"
                           ELSE "request_completed",
                 path |-> req.path,
                 request_id |-> req.request_id[RequestLoggerMiddleware]])
    /\ UNCHANGED <<docsRoot, fs, resp, tasks, now, context, computed>>

(* The Prometheus and CORS middleware pass the request down and what comes
   back up; neither touches the request ID. *)
Other_call ==
    /\ At("request", req.depth + 1,
          {"PrometheusInstrumentatorMiddleware", "CORSMiddleware"})
    /\ req' = [req EXCEPT !.depth = req.depth + 1]
    /\ UNCHANGED <<docsRoot, fs, resp, tasks, now, context, computed, log>>

Other_return ==
    /\ At("response", req.depth,
          {"PrometheusInstrumentatorMiddleware", "CORSMiddleware"})
    /\ req' = [req EXCEPT !.depth = req.depth - 1]
    /\ UNCHANGED <<docsRoot, fs, resp, tasks, now, context, computed, log>>

(* Below the chain get_doc runs: it returns a response, or an exception no
   handler catches goes back up. *)
Endpoint ==
    /\ req # NoReq
    /\ req.op = "http"
    /\ req.phase = "request"
    /\ req.depth = Len(user_middleware)
    /\ LET r == get_doc(req.path, req.format)
       IN  IF r.doc_file.raised
           THEN /\ req' = [req EXCEPT !.phase = "response", !.raised = TRUE]
                /\ resp' = NoResp
           ELSE /\ req' = [req EXCEPT !.phase = "response"]
                /\ resp' = [status |-> r.status, ctype |-> r.ctype,
                            headers |-> EmptyDict]
    /\ UNCHANGED <<docsRoot, fs, tasks, now, context, computed, log>>

(* Above the chain: a response is ready to be sent as it is; for an
   exception the framework builds the plain-text 500 response. *)
ServerError ==
    /\ req # NoReq
    /\ req.op = "http"
    /\ req.phase = "response"
    /\ req.depth = 0
    /\ req' = [req EXCEPT !.phase = "done"]
    /\ resp' = IF req.raised
               THEN [status |-> 500, ctype |-> "text/plain",
                     headers |-> EmptyDict]
               ELSE resp
    /\ UNCHANGED <<docsRoot, fs, tasks, now, context, computed, log>>

(* The response is sent; the log stays. *)
Send ==
    /\ req # NoReq
    /\ req.op = "http"
    /\ req.phase = "done"
    /\ req' = NoReq
    /\ resp' = NoResp
    /\ UNCHANGED <<docsRoot, fs, tasks, now, context, computed, log>>

MwNext ==
    (* a document that is there, one that is not, and one whose name the
       filesystem refuses *)
    \/ \E path \in {P_c_a, P_c, P_long}, format \in Formats :
          Receive(path, format)
    \/ RequestID_call
    \/ RequestID_return
    \/ RequestLogger_call
    \/ RequestLogger_return
    \/ Other_call
    \/ Other_return
    \/ Endpoint
    \/ ServerError
    \/ Send

MwSpec == MwInit /\ [][MwNext]_vars

----------------------------------------------------------------------------
(* Vocabulary of the properties *)

Stripped(path) == Strip(path, {"/"})

HasDocSuffix(s) == EndsWith(s, DotMd) \/ EndsWith(s, DotMarkdown)

(* The location of a logical path, ".." resolved, is not below the root. *)
EscapesRoot(path) ==
    LET loc == Normalize(<<>>, Div(docsRoot, Stripped(path)))
    IN  /\ Stripped(path) # <<>>
        /\ ~(IsPrefix(docsRoot, loc) /\ loc # docsRoot)

(* The entries below the root that exist, and their root-relative paths. *)
BelowRoot == {q \in Present : IsPrefix(docsRoot, q) /\ q # docsRoot}
Rel(q) == RelativeTo(q, docsRoot)

HiddenBelowRoot ==
    {q \in BelowRoot : \E i \in 1..Len(Rel(q)) : StartsWith(Rel(q)[i], <<".">>)}

(* What the glob patterns discover. *)
Candidates == {q \in BelowRoot : HasDocSuffix(Name(q))}

(* The regular files a complete listing owes an entry. *)
VisibleDocs == {q \in Candidates \ HiddenBelowRoot : is_file(q)}

Listed  == req.op = "list" /\ resp.status = 200
Unfiltered == ~req.category.given \/ req.category.val = <<>>
Paths(files) == [i \in 1..Len(files) |-> files[i].path]

----------------------------------------------------------------------------
(* C1: a logical path that leaves the documentation root is never resolved:
   find_doc_file returns None and the request is answered 400 or 404. *)
C1_TraversalRejected ==
    (req.op = "get" /\ EscapesRoot(req.path)) =>
        /\ resp.doc_file = None
        /\ resp.status \in {400, 404}

(* C2: for a logical path x that names a directory below the root,
   find_doc_file(x) returns x/README.md when that exists and x/index.md when
   only that exists. *)
C2_DirectoryIndex ==
    req.op = "get" =>
        LET x == Stripped(req.path)
            d == Div(docsRoot, x)
        IN  (x # <<>> /\ ~EscapesRoot(x) /\ is_dir(d)) =>
                /\ exists(Append(d, ReadmeMd)) =>
                       resp.doc_file = Found(Append(d, ReadmeMd))
                /\ (~exists(Append(d, ReadmeMd)) /\ exists(Append(d, IndexMd))) =>
                       resp.doc_file = Found(Append(d, IndexMd))

(* C3 as stated: whenever root/s.md is a regular file, for a path s without
   a suffix of its own, the logical paths s and s.md both resolve to it,
   whatever else the filesystem holds. *)
C3_Original ==
    req.op = "get" =>
        LET s == Stripped(req.path)
        IN  /\ (/\ s # <<>>
                /\ ~HasDocSuffix(s)
                /\ is_file(Div(docsRoot, s \o DotMd))) =>
                   resp.doc_file = Found(Div(docsRoot, s \o DotMd))
            /\ (EndsWith(s, DotMd) /\ is_file(Div(docsRoot, s))) =>
                   resp.doc_file = Found(Div(docsRoot, s))

(* C3 amended: whenever root/s.md is a regular file, for a path s without
   a suffix of its own, and root/s is not itself a regular file, the logical
   paths s and s.md both resolve to root/s.md. *)
C3_ExtensionInference ==
    req.op = "get" =>
        LET s == Stripped(req.path)
        IN  /\ (/\ s # <<>>
                /\ ~HasDocSuffix(s)
                /\ ~is_file(Div(docsRoot, s))
                /\ is_file(Div(docsRoot, s \o DotMd))) =>
                   resp.doc_file = Found(Div(docsRoot, s \o DotMd))
            /\ (EndsWith(s, DotMd) /\ is_file(Div(docsRoot, s))) =>
                   resp.doc_file = Found(Div(docsRoot, s))

(* C3 witness: "c/a" was requested while c/a.md is a regular file and c/a
   is a directory, and c/a.md was resolved. *)
C3_Witness ==
    /\ req.op = "get"
    /\ req.path = P_c_a
    /\ is_dir(Div(docsRoot, P_c_a))
    /\ is_file(Div(docsRoot, P_c_a_md))
    /\ resp.doc_file = Found(Div(docsRoot, P_c_a_md))

(* C4: the answer is 404 exactly when find_doc_file returns None, 500
   exactly when a file was resolved and reading it fails, 200 in every other
   case, and never anything else. *)
C4_StatusByOutcome ==
    req.op = "get" =>
        LET r == find_doc_file(req.path)
            unreadable == r.found /\ ReadRaises(r.file)
        IN  /\ resp.status \in {200, 404, 500}
            /\ resp.status = 404 <=> r = None
            /\ resp.status = 500 <=> unreadable
            /\ resp.status = 200 <=> (r # None /\ ~unreadable)

(* C5: with a non-empty category filter c, every entry returned has c as one
   whole segment of its root-relative path. *)
C5_CategoryWholeSegment ==
    (Listed /\ ~Unfiltered) =>
        \A i \in 1..Len(resp.files) :
            \E k \in 1..Len(Split(resp.files[i].path, "/")) :
                Split(resp.files[i].path, "/")[k] = req.category.val

(* C6: an entry below the root with a segment of its root-relative path
   beginning with "." is in no listing, whatever the category filter. *)
C6_HiddenNeverListed ==
    Listed =>
        \A q \in HiddenBelowRoot : \A i \in 1..Len(resp.files) :
            resp.files[i].path # path_str(Rel(q))

(* C6 witness: a listing that returned entries while .g/n.md existed. *)
C6_Witness ==
    /\ Listed
    /\ Len(resp.files) > 0
    /\ docsRoot \o <<n_dot_g, n_n_md>> \in HiddenBelowRoot

(* C7: an unfiltered listing has an entry for every regular .md or .markdown
   file below the root that has no hidden segment in its root-relative
   path, wherever the root lies. *)
C7_ListingComplete ==
    (Listed /\ Unfiltered) =>
        \A q \in VisibleDocs : \E i \in 1..Len(resp.files) :
            resp.files[i].path = path_str(Rel(q))

(* C8: every listing is sorted ascending by path, has no two entries with
   the same path and a total equal to its length; the files b.md, a.md and
   c/a.md are listed as a.md, b.md, c/a.md. *)
C8_SortedUnique ==
    Listed =>
        /\ \A i, j \in 1..Len(resp.files) :
               i < j => ~StrLess(resp.files[j].path, resp.files[i].path)
        /\ \A i, j \in 1..Len(resp.files) :
               i < j => resp.files[i].path # resp.files[j].path
        /\ resp.total = Len(resp.files)
        /\ (/\ Unfiltered
            /\ docsRoot = <<App, Docs>>
            /\ Candidates = {docsRoot \o <<n_a_md>>, docsRoot \o <<n_b_md>>,
                             docsRoot \o <<n_c, n_a_md>>}
            /\ \A q \in Candidates : is_file(q)) =>
               Paths(resp.files) = <<n_a_md, n_b_md, P_c_a_md>>

(* C9: while the root exists a listing succeeds, and every candidate it
   does not skip that cannot be read has an entry titled with its stem. *)
C9_ListingRobust ==
    (req.op = "list" /\ exists(docsRoot)) =>
        /\ resp.status = 200
        /\ \A q \in Candidates :
               (/\ ~in_hidden(q)
                /\ (Unfiltered \/ ~not_in_category(req.category, q))
                /\ ReadRaises(q)) =>
                   \E i \in 1..Len(resp.files) :
                       /\ resp.files[i].path = path_str(Rel(q))
                       /\ resp.files[i].title = Stem(q)

(* The entries an unfiltered listing of the current tree returns. *)
ListedEntries ==
    UNION { LET l == list_docs(md_files, NoCategory)
            IN  IF l.status = 200
                THEN {l.files[i] : i \in 1..Len(l.files)}
                ELSE {}
          : md_files \in GlobResults }

GetAnswers(e) ==
    /\ resp.status = 200
    /\ resp.doc.path = e.path
    /\ resp.doc.title = e.title
    /\ req.format = "html" => resp.ctype = "text/html"

(* C10 as stated: requesting the path of any entry of an unfiltered listing
   answers 200 with that entry's path and title, as text/html when asked. *)
C10_Original ==
    req.op = "get" =>
        \A e \in ListedEntries : req.path = e.path => GetAnswers(e)

(* C10 amended: for every entry of an unfiltered listing that was made from
   a regular file readable as UTF-8, requesting that file's root-relative
   path answers 200 with the entry's path and title, as text/html when
   asked. *)
C10_ListThenGet ==
    req.op = "get" =>
        \A q \in Candidates :
            (/\ req.path = PathStr(Rel(q))
             /\ ~ReadRaises(q)
             /\ entry(q) \in ListedEntries) => GetAnswers(entry(q))

(* C10 witness: a listed, readable file was requested as html and
   answered. *)
C10_Witness ==
    /\ req.op = "get"
    /\ req.format = "html"
    /\ resp.status = 200
    /\ \E q \in Candidates :
          /\ req.path = PathStr(Rel(q))
          /\ ~ReadRaises(q)
          /\ entry(q) \in ListedEntries

----------------------------------------------------------------------------
(* Vocabulary of the document properties *)

Lines(content) == Split(content, "\n")

(* The content has the form: a line "---", a block of lines, a delimiter
   line "---", a body. *)
HasFrontMatter(content) ==
    /\ Lines(content)[1] = Dashes
    /\ \E j \in 2..Len(Lines(content)) : Lines(content)[j] = Dashes

(* The index of the second delimiter line. *)
Delimiter(content) ==
    CHOOSE j \in 2..Len(Lines(content)) :
        /\ Lines(content)[j] = Dashes
        /\ \A i \in 2..(j - 1) : Lines(content)[i] # Dashes

Block(content) == SubSeq(Lines(content), 2, Delimiter(content) - 1)

Body(content) ==
    Join(SubSeq(Lines(content), Delimiter(content) + 1,
                Len(Lines(content))), "\n")

Colon(line) == CHOOSE i \in 1..Len(line) :
                   line[i] = ":" /\ \A k \in 1..(i - 1) : line[k] # ":"

KeyOf(line) == Strip(SubSeq(line, 1, Colon(line) - 1), Whitespace)

ValueOf(line) ==
    Strip(Strip(SubSeq(line, Colon(line) + 1, Len(line)), Whitespace),
          {"\"", "'"})

(* The key and value of every block line that contains ":". *)
BlockPairs(content) ==
    {<<KeyOf(Block(content)[i]), ValueOf(Block(content)[i])>> :
        i \in {k \in 1..Len(Block(content)) : Contains(Block(content)[k], ":")}}

Pairs(dict) == {<<k, dict[k]>> : k \in DOMAIN dict}

(* C11: for content made of a line "---", a block of lines, a delimiter line
   "---" and a body, parse_markdown returns as metadata the key and value of
   every block line that contains ":" (the value may contain ":" or "---")
   and renders the body after the delimiter line, trimmed. *)
C11_FrontMatterParsed ==
    (req.op = "parse_markdown" /\ HasFrontMatter(req.content)) =>
        /\ Pairs(resp.metadata) = BlockPairs(req.content)
        /\ resp.html.body = md_convert(Strip(Body(req.content), Whitespace))

(* The lines of the content that begin with "# ". *)
TitleLines(content) ==
    {i \in 1..Len(Lines(content)) : StartsWith(Lines(content)[i], <<"#", " ">>)}

(* The remainder, trimmed, of the first line that begins with "# ". *)
FirstTitleLine(content) ==
    LET i == CHOOSE h \in TitleLines(content) :
                 \A k \in TitleLines(content) : h <= k
    IN  Strip(SubSeq(Lines(content)[i], 3, Len(Lines(content)[i])), Whitespace)

(* C12: extract_title returns the trimmed remainder of the first line that
   begins with "# ", and the placeholder "Documentation" when no line begins
   with "# "; lines that begin with "##" or with "#" and no space are passed
   over. *)
C12_TitleExtracted ==
    req.op = "extract_title" =>
        resp.title = IF TitleLines(req.content) = {} THEN Placeholder
                     ELSE FirstTitleLine(req.content)

(* C12 witness: the title came from the third line, after a "## " line and
   a "#V" line, with its trailing blank removed. *)
C12_Witness ==
    /\ req.op = "extract_title"
    /\ Len(Lines(req.content)) >= 3
    /\ Lines(req.content)[1] = L_h2
    /\ Lines(req.content)[2] = L_hash
    /\ Lines(req.content)[3] = L_title
    /\ resp.title = <<"T">>

(* The text of the document as the handlers read it. *)
DocText == ReadText(DocFile)

(* The title every successful answer about the document reports: in the
   structured document and the page of get_doc and in the entry of
   list_docs. *)
ReportedTitle(title) ==
    /\ req.op = "get" =>
          /\ resp.doc.title = title
          /\ req.format = "html" => resp.page[7] = title \o TitleSuffix
    /\ req.op = "list" =>
          \A i \in 1..Len(resp.files) : resp.files[i].title = title

(* C13 as stated: for a document with a front-matter block the reported
   title is the first "# " line of the body, or the placeholder when the
   body has none, never a line of the front-matter block. *)
C13_Original ==
    (/\ req.op \in {"get", "list"}
     /\ resp.status = 200
     /\ HasFrontMatter(DocText)) =>
        ReportedTitle(IF TitleLines(Body(DocText)) = {} THEN Placeholder
                      ELSE FirstTitleLine(Body(DocText)))

(* C13 amended: the title reported by get_doc and by list_docs is taken from
   the whole text of the file, front-matter block included: it is the
   trimmed remainder of the first line of the file that begins with "# ",
   and the placeholder only when no line of the file does. *)
C13_TitleFromRawContent ==
    (req.op \in {"get", "list"} /\ resp.status = 200) =>
        ReportedTitle(IF TitleLines(DocText) = {} THEN Placeholder
                      ELSE FirstTitleLine(DocText))

(* C13 witness: get_doc reported the title of a "# " line of the
   front-matter block of a document whose body has no such line. *)
C13_Witness ==
    /\ req.op = "get"
    /\ resp.status = 200
    /\ HasFrontMatter(DocText)
    /\ \E i \in 1..Len(Block(DocText)) : Block(DocText)[i] = L_title
    /\ TitleLines(Body(DocText)) = {}
    /\ resp.doc.title = <<"T">>

(* The place of a piece in the page, 0 when it is not there. *)
PageIndex(page, piece) ==
    IF \E i \in 1..Len(page) : i \notin {7, 13} /\ page[i] = piece
    THEN CHOOSE i \in 1..Len(page) : i \notin {7, 13} /\ page[i] = piece
    ELSE 0

(* The answer of get_doc to a path that resolved to a readable file, given
   what the content of the structured document has to be; the title, the
   fragment and the mapping are those of the text as read. *)
ResponseFormat(content) ==
    LET text   == ReadText(resp.doc_file.file)
        parsed == parse_markdown(text)
        page   == resp.page
        doc    == resp.doc
    IN  /\ resp.status = 200
        /\ req.format = "html" =>
              /\ resp.ctype = "text/html"
              /\ page # NoPage
              /\ page[1] = "<!DOCTYPE html>"
              /\ PageIndex(page, "<title>") > 0
              /\ PageIndex(page, "</title>") = PageIndex(page, "<title>") + 2
              /\ StartsWith(page[PageIndex(page, "<title>") + 1],
                            extract_title(text))
              /\ PageIndex(page, "<body>") > 0
              /\ PageIndex(page, "</body>") = PageIndex(page, "<body>") + 2
              /\ page[PageIndex(page, "<body>") + 1] = parsed.html
        /\ req.format # "html" =>
              /\ resp.ctype = "application/json"
              /\ page = NoPage
              /\ DOMAIN doc = {"path", "title", "content", "html", "metadata"}
              /\ doc.content = content
              /\ doc.html = parsed.html
              /\ doc.metadata.null <=> parsed.metadata = EmptyDict
              /\ ~doc.metadata.null => doc.metadata.dict = parsed.metadata

Resolved ==
    /\ req.op = "get"
    /\ resp.doc_file.found
    /\ ~ReadRaises(resp.doc_file.file)

(* C14 as stated: for a path that resolves to a readable file, get_doc
   answers "html" with a complete page (text/html, <!DOCTYPE html> first,
   the title inside <title>, the fragment inside <body>) and otherwise with
   the structured document, whose content is the text of the file unchanged
   and whose metadata is null exactly when the parsed mapping is empty. *)
C14_Original ==
    Resolved => ResponseFormat(Lookup(resp.doc_file.file).data)

(* C14 amended: the same, with the content being the text of the file as
   read in text mode: decoded, every "\r\n" and lone "\r" turned into
   "\n", and otherwise unchanged (front-matter included). *)
C14_ResponseFormat ==
    Resolved =>
        ResponseFormat(UniversalNewlines(Lookup(resp.doc_file.file).data))

(* C14 witness: a structured document with metadata was returned for a file
   that holds a carriage return. *)
C14_Witness ==
    /\ Resolved
    /\ req.format = "json"
    /\ ~resp.doc.metadata.null
    /\ Contains(Lookup(resp.doc_file.file).data, "\r")
    /\ ~Contains(resp.doc.content, "\r")

----------------------------------------------------------------------------
(* Vocabulary of the concurrency properties *)

(* The answers a request can get when it is the only one running, on the
   filesystem as it is. *)
Alone(r) ==
    IF r.op = "get" THEN {get_doc(r.path, r.format)}
    ELSE {list_docs(md_files, r.category) : md_files \in GlobResults}

(* C15: whatever the interleaving of the requests in flight over an
   unchanged filesystem, every request ends with an answer it can get when
   run alone, whether or not another request has failed. *)
C15_RequestIsolation ==
    \A c \in Clients :
        tasks[c].pc = "done" => tasks[c].resp \in Alone(tasks[c].req)

(* C15 witness: one request has failed on a corrupt file with 500 while
   another one, in flight at the same time, has its document. *)
C15_Witness ==
    \E c, d \in Clients :
        /\ tasks[c].pc = "done"
        /\ tasks[c].req.op = "get"
        /\ tasks[c].doc_file.found
        /\ tasks[c].resp.status = 500
        /\ tasks[d].pc = "done"
        /\ tasks[d].req.op = "get"
        /\ tasks[d].resp.status = 200

(* The requests whose path has been resolved. *)
ResolvedTasks ==
    {c \in Clients : /\ tasks[c].req.op = "get"
                     /\ tasks[c].pc \in {"read", "render", "done"}}

(* Every resolution held reflects the filesystem as it is: a file found
   exists, nothing is found only when neither the path nor the path with
   ".md" added is a regular file, and the same path has the same
   resolution in every request. *)
ResolutionFresh ==
    /\ \A c \in ResolvedTasks :
          LET d == tasks[c].doc_file
              s == Stripped(tasks[c].req.path)
          IN  /\ d.found => exists(d.file)
              /\ (~d.found /\ ~d.raised) =>
                    /\ ~is_file(Div(docsRoot, s))
                    /\ ~HasDocSuffix(s) => ~is_file(Div(docsRoot, s \o DotMd))
    /\ \A c, d \in ResolvedTasks :
          tasks[c].req.path = tasks[d].req.path =>
              tasks[c].doc_file = tasks[d].doc_file

(* A step in which some request resolves its path. *)
ResolveStep ==
    \E c \in Clients : tasks[c].pc = "resolve" /\ tasks'[c].pc # "resolve"

(* C16: resolving a path changes neither the filesystem nor any state of
   the process, and every resolution reflects the filesystem of the moment:
   requests that resolve the same path on the same tree get the same
   result, and a request made after the tree has changed gets the result of
   the new tree. *)
C16_ResolutionFresh ==
    [][ /\ ResolutionFresh'
        /\ ResolveStep =>
              UNCHANGED <<docsRoot, fs, context, computed, now>> ]_vars

(* C16 witness: two requests hold the same resolution of the same path, a
   file created after the service started. *)
C16_Witness ==
    \E c, d \in ResolvedTasks :
        /\ c # d
        /\ tasks[c].req.path = tasks[d].req.path
        /\ tasks[c].doc_file.found
        /\ tasks[d].doc_file = tasks[c].doc_file

----------------------------------------------------------------------------
(* The category of a file: the first segment of its path relative to the
   root when a directory lies between the root and the file, else "root". *)
CategoryOf(q) == IF Len(Rel(q)) > 1 THEN Rel(q)[1] ELSE RootCategory

(* The candidates list_docs does not skip, with the filter of the
   request. *)
Kept ==
    {q \in Candidates :
        /\ ~in_hidden(q)
        /\ Unfiltered \/ ~not_in_category(req.category, q)}

(* C17: every entry of a listing is the entry of a file it kept, with the
   first segment of that file's root-relative path as its category when the
   file is nested below the root and "root" when it lies directly in the
   root; and every file kept has such an entry. *)
C17_CategoryDerived ==
    Listed =>
        /\ \A i \in 1..Len(resp.files) :
              \E q \in Kept : /\ resp.files[i].path = path_str(Rel(q))
                               /\ resp.files[i].size = st_size(q)
                               /\ resp.files[i].category = CategoryOf(q)
        /\ \A q \in Kept :
              \E i \in 1..Len(resp.files) :
                  /\ resp.files[i].path = path_str(Rel(q))
                  /\ resp.files[i].category = CategoryOf(q)

(* C17 witness: a listing with an entry of category "root" and an entry two
   directories deep whose category is its first segment. *)
C17_Witness ==
    /\ Listed
    /\ \E i, j \in 1..Len(resp.files) :
          /\ resp.files[i].category = RootCategory
          /\ Len(Split(resp.files[i].path, "/")) = 1
          /\ Len(Split(resp.files[j].path, "/")) = 3
          /\ resp.files[j].category = Split(resp.files[j].path, "/")[1]

----------------------------------------------------------------------------
(* C18: parse_markdown returns for every content; when the content starts
   with "---" and no later line is a "---" delimiter, the metadata is empty
   and the whole content, leading "---" included, is what is rendered; and
   every key of the metadata comes from a line that contains ":". *)
C18_MalformedFrontMatter ==
    req.op = "parse_markdown" =>
        /\ DOMAIN resp = {"html", "metadata"}
        /\ \A key \in DOMAIN resp.metadata :
              \E i \in 1..Len(Lines(req.content)) :
                  /\ Contains(Lines(req.content)[i], ":")
                  /\ KeyOf(Lines(req.content)[i]) = key
        /\ (/\ StartsWith(req.content, Dashes)
            /\ \A j \in 2..Len(Lines(req.content)) :
                   Lines(req.content)[j] # Dashes) =>
                /\ resp.metadata = EmptyDict
                /\ resp.html.body = md_convert(req.content)

----------------------------------------------------------------------------
(* Vocabulary of the health properties *)

HasCheck(result, name) ==
    \E i \in 1..Len(result.checks) : result.checks[i].name = name

HealthCall == req.op \in {"healthz", "check_health"}

(* C19: a result check_health has just computed is "unhealthy" exactly when
   the docs directory does not exist or cannot be read and "healthy"
   otherwise, whatever the markdown_files check says; it has the checks
   "service" and "docs_directory", and "docs_readable" exactly when the
   directory exists; and /healthz answers 503 exactly when the status it
   returns is "unhealthy", else 200. *)
C19_HealthStatus ==
    /\ (HealthCall /\ resp.probed) =>
          /\ resp.result.status \in {"healthy", "unhealthy"}
          /\ resp.result.status = "unhealthy"
                <=> (~exists(docsRoot) \/ ~access_R_OK(docsRoot))
          /\ HasCheck(resp.result, "service")
          /\ HasCheck(resp.result, "docs_directory")
          /\ HasCheck(resp.result, "docs_readable") <=> exists(docsRoot)
    /\ req.op = "healthz" =>
          /\ resp.status \in {200, 503}
          /\ resp.status = 503 <=> resp.result.status = "unhealthy"

(* C19 witness: /healthz answered 200 with a freshly computed healthy result
   whose markdown_files check is in error. *)
C19_Witness ==
    /\ req.op = "healthz"
    /\ resp.probed
    /\ resp.status = 200
    /\ resp.result.status = "healthy"
    /\ \E i \in 1..Len(resp.result.checks) :
          /\ resp.result.checks[i].name = "markdown_files"
          /\ resp.result.checks[i].status = "error"

(* C20: once check_health has computed a result at time t, a call at a time
   less than 5 seconds after t, in the same /healthz request or a later one,
   returns that result without probing the filesystem, and a call 5 seconds
   or more after t computes a new result and sets the cache timestamp to
   the time of the call. *)
C20_CachedWithinTtl ==
    [][ (req = NoReq /\ req'.op \in {"healthz", "check_health"}) =>
          IF computed.valid /\ now - computed.at < cache_ttl
          THEN /\ ~resp'.probed
               /\ resp'.result = computed.result
          ELSE /\ resp'.probed
               /\ req'.context.cache_timestamp = now ]_vars

(* The number of entries a scan of the docs directory for *.md and for
   *.markdown finds. *)
MarkdownFilesFound ==
    Cardinality(glob(DotMd)) + Cardinality(glob(DotMarkdown))

(* C21: when the docs directory exists and can be read, a result check_health
   has just computed has a "markdown_files" check whose status is "ok" and
   whose "count" field is the number of .md plus .markdown files found under
   the docs directory. *)
C21_MarkdownFilesCounted ==
    (/\ HealthCall
     /\ resp.probed
     /\ exists(docsRoot)
     /\ access_R_OK(docsRoot)) =>
        \E i \in 1..Len(resp.result.checks) :
            LET chk == resp.result.checks[i]
            IN  /\ chk.name = "markdown_files"
                /\ chk.status = "ok"
                /\ "count" \in DOMAIN chk
                /\ chk.count = MarkdownFilesFound

----------------------------------------------------------------------------
(* Vocabulary of the middleware properties *)

(* The events logged for the request being served. *)
RequestEvents == SubSeq(log, req.log_start + 1, Len(log))

(* The response of an HTTP request is ready to be sent. *)
Served == req.op = "http" /\ req.phase = "done"

(* C22: the request ID is on request.state when RequestLoggerMiddleware
   reads it, so, when the response of a request is ready, the request's
   request_started event and its request_completed or request_failed event
   are in the log and carry the request ID that the response has in its
   X-Request-ID header, which is not None. *)
C22_RequestIdPropagated ==
    Served =>
        /\ "X-Request-ID" \in DOMAIN resp.headers
        /\ resp.headers["X-Request-ID"] # NoRequestId
        /\ \E i \in DOMAIN RequestEvents :
              RequestEvents[i].event = "request_started"
        /\ \E i \in DOMAIN RequestEvents :
              RequestEvents[i].event \in
                  {"request_completed", "request_failed"}
        /\ \A i \in DOMAIN RequestEvents :
              RequestEvents[i].request_id = resp.headers["X-Request-ID"]

====
